---- MODULE Spec2Model ----
(***************************************************************************)
(* A model of two components of the compose-cli repository:                *)
(*                                                                         *)
(*   cli/metrics/metrics.go   Track, isInvokedAsCliBackend, GetCommand     *)
(*   ecs (Logs)               ecsAPIService.Logs                           *)
(*                                                                         *)
(* Go strings are sequences of bytes, so TrimSpace, HasSuffix and the      *)
(* joining of words are computed on the bytes and the runes they encode,   *)
(* as the Go library computes them.                                        *)
(***************************************************************************)
EXTENDS Integers, Sequences, FiniteSets, TLC

VARIABLES
    argv0,      \* os.Args[0] of the running process
    context,    \* Track's parameter context
    args,       \* Track's / GetCommand's parameter args
    status,     \* Track's parameter status
    pc,         \* position of the Track call
    idx,        \* index (1-based) of the next token the range loop reads
    result,     \* GetCommand's local result
    onlyFlags,  \* GetCommand's local onlyFlags
    added,      \* history: the tokens written into result so far, in time order
    sent,       \* the records handed to the metrics client by c.Send
    services,   \* Logs: options.Services
    follow,     \* Logs: options.Follow
    stream,     \* Logs: the entries the backend has to emit, in its order
    emitted,    \* Logs: how many entries of stream the backend has emitted
    wrapped,    \* Logs: whether consumer was replaced by the filtering consumer
    delivered,  \* Logs: the entries the base consumer received, in order
    cancelled,  \* Logs: whether the caller's context is cancelled
    backendErr, \* Logs: the value GetLogs returned
    ret,        \* Logs: the value Logs returned
    lpc,        \* position of the Logs call
    quiet       \* HasQuietFlag: the value returned, "none" before it returns

trackVars == <<argv0, context, args, status, pc, idx, result, onlyFlags, added, sent>>
logVars   == <<services, follow, stream, emitted, wrapped, delivered, cancelled,
               backendErr, ret, lpc>>
vars      == <<trackVars, logVars, quiet>>

-----------------------------------------------------------------------------
(* Bounds of the model.                                                    *)

MaxArgs == 3

MaxStream == 3

MaxServices == 2

-----------------------------------------------------------------------------
(* Strings.                                                                *)
(*                                                                         *)
(* A Go string is a sequence of bytes: here a sequence of numbers 0..255,  *)
(* text being held in UTF-8 as the Go runtime holds it. os.Args[0], the    *)
(* tokens of args and the strings built from them are such sequences. The  *)
(* names the code passes on without looking into them (context, status,    *)
(* service names, log lines, error texts) are TLA+ strings.                *)

\* the printable ASCII characters 32..95
Low == " !\"#$%&'()*+,-./0123456789:;<=>?@ABCDEFGHIJKLMNOPQRSTUVWXYZ[\\]^_"

\* the printable ASCII characters 97..126
High == "abcdefghijklmnopqrstuvwxyz{|}~"

\* the byte of each of these characters
ByteOf ==
    [c \in {SubSeq(Low, i, i) : i \in 1..Len(Low)} \cup {SubSeq(High, i, i) : i \in 1..Len(High)} |->
        IF \E i \in 1..Len(Low) : SubSeq(Low, i, i) = c
        THEN 31 + CHOOSE i \in 1..Len(Low) : SubSeq(Low, i, i) = c
        ELSE 96 + CHOOSE i \in 1..Len(High) : SubSeq(High, i, i) = c]

\* the bytes of a string literal written with these characters
Lit(s) == [i \in 1..Len(s) |-> ByteOf[SubSeq(s, i, i)]]

\* utf8.RuneError
RuneError == 65533

\* utf8.RuneSelf
RuneSelf == 128

\* utf8.UTFMax
UTFMax == 4

\* a continuation byte, 10xxxxxx
IsCont(b) == b \in 128..191

\* utf8.RuneStart
RuneStart(b) == ~IsCont(b)

\* utf8.DecodeRuneInString: the first rune of s and its width in bytes;
\* (RuneError, 0) for the empty string, (RuneError, 1) for an encoding that
\* is invalid, too long for its value, cut short, a surrogate or out of range
DecodeRune(s) ==
    LET n == Len(s)
        bad == [rune |-> RuneError, size |-> 1]
    IN  IF n = 0 THEN [rune |-> RuneError, size |-> 0]
        ELSE IF s[1] < RuneSelf THEN [rune |-> s[1], size |-> 1]
        ELSE IF s[1] \in 194..223
        THEN IF n >= 2 /\ IsCont(s[2])
             THEN [rune |-> (s[1] - 192) * 64 + (s[2] - 128), size |-> 2]
             ELSE bad
        ELSE IF s[1] \in 224..239
        THEN IF /\ n >= 3
                /\ s[2] \in (IF s[1] = 224 THEN 160 ELSE 128)..(IF s[1] = 237 THEN 159 ELSE 191)
                /\ IsCont(s[3])
             THEN [rune |-> (s[1] - 224) * 4096 + (s[2] - 128) * 64 + (s[3] - 128),
                   size |-> 3]
             ELSE bad
        ELSE IF s[1] \in 240..244
        THEN IF /\ n >= 4
                /\ s[2] \in (IF s[1] = 240 THEN 144 ELSE 128)..(IF s[1] = 244 THEN 143 ELSE 191)
                /\ IsCont(s[3])
                /\ IsCont(s[4])
             THEN [rune |-> (s[1] - 240) * 262144 + (s[2] - 128) * 4096
                                + (s[3] - 128) * 64 + (s[4] - 128),
                   size |-> 4]
             ELSE bad
        ELSE bad

\* utf8.DecodeLastRuneInString: the last rune of s and its width in bytes.
\* The decoder walks back from the last byte, over at most UTFMax bytes, to
\* the nearest byte that starts a rune, and decodes from there; the rune
\* counts only when its encoding ends where s ends.
DecodeLastRune(s) ==
    LET end == Len(s)
        lim == IF end - UTFMax < 0 THEN 0 ELSE end - UTFMax
        \* positions counted from 0, as in the source
        starts == {k \in lim..(end - 2) : RuneStart(s[k + 1])}
        start == IF starts # {}
                 THEN CHOOSE k \in starts : \A j \in starts : j <= k
                 ELSE IF lim - 1 < 0 THEN 0 ELSE lim - 1
        d == DecodeRune(SubSeq(s, start + 1, end))
    IN  IF end = 0 THEN [rune |-> RuneError, size |-> 0]
        ELSE IF s[end] < RuneSelf THEN [rune |-> s[end], size |-> 1]
        ELSE IF start + d.size # end THEN [rune |-> RuneError, size |-> 1]
        ELSE d

\* unicode.IsSpace on a rune: \t, \n, \v, \f, \r, space, U+0085 and U+00A0 in
\* Latin-1, and beyond it the White_Space runes U+1680, U+2000 to U+200A,
\* U+2028, U+2029, U+202F, U+205F and U+3000
IsSpace(r) ==
    \/ r \in 9..13
    \/ r = 32
    \/ r = 133
    \/ r = 160
    \/ r = 5760
    \/ r \in 8192..8202
    \/ r \in 8232..8233
    \/ r = 8239
    \/ r = 8287
    \/ r = 12288

\* the leading white space runes removed
RECURSIVE TrimLeft(_)
TrimLeft(s) ==
    IF Len(s) > 0 /\ IsSpace(DecodeRune(s).rune)
    THEN TrimLeft(SubSeq(s, DecodeRune(s).size + 1, Len(s)))
    ELSE s

\* the trailing white space runes removed
RECURSIVE TrimRight(_)
TrimRight(s) ==
    IF Len(s) > 0 /\ IsSpace(DecodeLastRune(s).rune)
    THEN TrimRight(SubSeq(s, 1, Len(s) - DecodeLastRune(s).size))
    ELSE s

\* strings.TrimSpace
TrimSpace(s) == TrimRight(TrimLeft(s))

\* strings.HasSuffix
HasSuffix(s, suffix) ==
    /\ Len(s) >= Len(suffix)
    /\ SubSeq(s, Len(s) - Len(suffix) + 1, Len(s)) = suffix

\* utils.StringContains: whether the list holds the word
StringContains(list, word) == \E i \in 1..Len(list) : list[i] = word

-----------------------------------------------------------------------------
(* The string literals of cli/metrics/metrics.go.                          *)

\* line 76
helpFlag == Lit("--help")

\* line 80
terminator == Lit("--")

\* lines 77 and 84: what joins the words
space == Lit(" ")

\* line 45
backendSuffix == Lit("-backend")

\* line 64
quietLong == Lit("--quiet")

\* line 64
quietShort == Lit("-q")

-----------------------------------------------------------------------------
(* The reference lists of package metrics.                                 *)

commands == <<Lit("up"), Lit("ecs")>>

managementCommands == <<Lit("context"), Lit("ecs")>>

commandFlags == <<Lit("--version")>>

CLISource == "cli"

-----------------------------------------------------------------------------
(* Inputs.                                                                 *)

\* a token that is in none of the lists
myimage == Lit("myimage")

\* the executable of the command line
docker == Lit("docker")

Tokens == {helpFlag, terminator, Lit("up"), Lit("context"), Lit("ecs"), Lit("--version"), myimage, <<>>}

RECURSIVE SeqsUpTo(_, _)
SeqsUpTo(S, n) ==
    IF n = 0 THEN {<<>>}
    ELSE LET shorter == SeqsUpTo(S, n - 1)
         IN  shorter \cup {Append(s, t) : s \in {q \in shorter : Len(q) = n - 1}, t \in S}

ArgVectors == SeqsUpTo(Tokens, MaxArgs)

Executables == {docker, Lit("docker-backend"), Lit("backend")}

Contexts == {"default", "aci"}

Statuses == {"success", "failure"}

ServiceNames == {"web", "db"}

Lines == {"line1", "line2"}

\* what the backend emits: a line attributed to a service
Entries == [service : ServiceNames, line : Lines]

Streams == SeqsUpTo(Entries, MaxStream)

\* options.Services: the requested services, possibly one with no entry
ServiceLists == SeqsUpTo(ServiceNames \cup {"api"}, MaxServices)

\* the errors GetLogs can return
Errors == {"project not found", "transport failure"}

\* the tokens HasQuietFlag is tried on
QuietTokens == {quietLong, quietShort, Lit("-Q"), Lit("--quiet=true"), Lit("up"), terminator, myimage}

QuietArgVectors == SeqsUpTo(QuietTokens, MaxArgs)

-----------------------------------------------------------------------------
(* cli/metrics/metrics.go                                                  *)

\* a slip: the whole name compared, not its suffix
isInvokedAsCliBackend_Exact(executable) == executable = backendSuffix

isInvokedAsCliBackend(executable) == HasSuffix(executable, backendSuffix)

isManagementCommand(word) == StringContains(managementCommands, word)

\* a slip: the negation of the management test
isCommand_Loose(word) == StringContains(commands, word) \/ ~isManagementCommand(word)

isCommand(word) == StringContains(commands, word) \/ isManagementCommand(word)

isCommandFlag(word) == StringContains(commandFlags, word)

\* a slip: --help appended like any other word
PrependHelp_Appended(res, arg) == TrimSpace(res \o space \o arg)

\* line 77: --help goes to the front of result
PrependHelp(res, arg) == TrimSpace(arg \o space \o res)

\* a slip: the command test dropped
Matches_Any(only, arg) == isCommandFlag(arg) \/ ~only

\* line 83: the condition under which arg is appended
Matches(only, arg) == isCommandFlag(arg) \/ (~only /\ isCommand(arg))

\* a slip: the word put in front of result
AppendWord_Front(res, arg) == TrimSpace(arg \o space \o res)

\* line 84: arg goes to the end of result
AppendWord(res, arg) == TrimSpace(res \o space \o arg)

\* a slip: every command sets the latch
Latch_AnyCommand(only, arg) == IF isCommand(arg) THEN TRUE ELSE only

\* a slip: the management test not negated
Latch_Management(only, arg) == IF isCommand(arg) /\ isManagementCommand(arg) THEN TRUE ELSE only

\* a slip: the latch never set
Latch_Never(only, arg) == only

\* lines 85-87: the latch
Latch(only, arg) == IF isCommand(arg) /\ ~isManagementCommand(arg) THEN TRUE ELSE only

\* a slip: the scan stopped at the first token that is neither flag nor command
Branch_StopAtUnknown(only, arg) ==
    IF arg = helpFlag THEN "help"
    ELSE IF arg = terminator THEN "break"
    ELSE IF Matches(only, arg) THEN "append"
    ELSE "break"

\* a slip: --help taken as a command, no longer read once the latch is set
Branch_HelpFrozen(only, arg) ==
    IF arg = helpFlag /\ ~only THEN "help"
    ELSE IF arg = terminator THEN "break"
    ELSE IF Matches(only, arg) THEN "append"
    ELSE "ignore"

\* a slip: no break on the terminator
Branch_NoBreak(only, arg) ==
    IF arg = helpFlag THEN "help"
    ELSE IF Matches(only, arg) THEN "append"
    ELSE "ignore"

\* lines 76-88: which branch of the loop body the token takes
Branch(only, arg) ==
    IF arg = helpFlag THEN "help"
    ELSE IF arg = terminator THEN "break"
    ELSE IF Matches(only, arg) THEN "append"
    ELSE "ignore"

\* One iteration of the range loop on a scan state [result, onlyFlags, stop].
LoopBody(st, arg) ==
    CASE Branch(st.onlyFlags, arg) = "help" ->
            [st EXCEPT !.result = PrependHelp(st.result, arg)]
      [] Branch(st.onlyFlags, arg) = "break" ->
            [st EXCEPT !.stop = TRUE]
      [] Branch(st.onlyFlags, arg) = "append" ->
            [st EXCEPT !.result = AppendWord(st.result, arg),
                       !.onlyFlags = Latch(st.onlyFlags, arg)]
      [] OTHER -> st

RECURSIVE ScanFrom(_, _, _)
ScanFrom(st, a, i) ==
    IF i > Len(a) \/ st.stop THEN st
    ELSE ScanFrom(LoopBody(st, a[i]), a, i + 1)

\* GetCommand as a function of its argument
GetCommand(a) == ScanFrom([result |-> <<>>, onlyFlags |-> FALSE, stop |-> FALSE], a, 1).result

-----------------------------------------------------------------------------
(* Track, step by step.                                                    *)

NoLogs ==
    /\ services = <<>>
    /\ follow = FALSE
    /\ stream = <<>>
    /\ emitted = 0
    /\ wrapped = FALSE
    /\ delivered = <<>>
    /\ cancelled = FALSE
    /\ backendErr = "none"
    /\ ret = "none"
    /\ lpc = "off"

Init ==
    /\ argv0 \in Executables
    /\ context \in Contexts
    /\ args \in ArgVectors
    /\ status \in Statuses
    /\ pc = "Track"
    /\ idx = 1
    /\ result = <<>>
    /\ onlyFlags = FALSE
    /\ added = <<>>
    /\ sent = <<>>
    /\ NoLogs
    /\ quiet = "none"

\* lines 28-30: the backend process reports nothing
TrackBackend ==
    /\ pc = "Track"
    /\ isInvokedAsCliBackend(argv0)
    /\ pc' = "returned"
    /\ UNCHANGED <<argv0, context, args, status, idx, result, onlyFlags, added, sent>>
    /\ UNCHANGED logVars
    /\ UNCHANGED quiet

\* line 31 into lines 73-74: GetCommand starts
TrackClassify ==
    /\ pc = "Track"
    /\ ~isInvokedAsCliBackend(argv0)
    /\ pc' = "scan"
    /\ idx' = 1
    /\ result' = <<>>
    /\ onlyFlags' = FALSE
    /\ UNCHANGED <<argv0, context, args, status, added, sent>>
    /\ UNCHANGED logVars
    /\ UNCHANGED quiet

\* the scan state the loop body works on
Here == [result |-> result, onlyFlags |-> onlyFlags, stop |-> FALSE]

\* lines 76-79
ScanHelp ==
    /\ pc = "scan"
    /\ idx <= Len(args)
    /\ Branch(onlyFlags, args[idx]) = "help"
    /\ result' = LoopBody(Here, args[idx]).result
    /\ onlyFlags' = LoopBody(Here, args[idx]).onlyFlags
    /\ added' = Append(added, [pos |-> idx, tok |-> args[idx], how |-> "prepend"])
    /\ idx' = idx + 1
    /\ UNCHANGED <<argv0, context, args, status, pc, sent>>
    /\ UNCHANGED logVars
    /\ UNCHANGED quiet

\* lines 80-82, then line 90
ScanTerminator ==
    /\ pc = "scan"
    /\ idx <= Len(args)
    /\ Branch(onlyFlags, args[idx]) = "break"
    /\ result' = LoopBody(Here, args[idx]).result
    /\ onlyFlags' = LoopBody(Here, args[idx]).onlyFlags
    /\ pc' = "classified"
    /\ UNCHANGED <<argv0, context, args, status, idx, added, sent>>
    /\ UNCHANGED logVars
    /\ UNCHANGED quiet

\* lines 83-88, condition true
ScanAppend ==
    /\ pc = "scan"
    /\ idx <= Len(args)
    /\ Branch(onlyFlags, args[idx]) = "append"
    /\ result' = LoopBody(Here, args[idx]).result
    /\ onlyFlags' = LoopBody(Here, args[idx]).onlyFlags
    /\ added' = Append(added, [pos |-> idx, tok |-> args[idx], how |-> "append"])
    /\ idx' = idx + 1
    /\ UNCHANGED <<argv0, context, args, status, pc, sent>>
    /\ UNCHANGED logVars
    /\ UNCHANGED quiet

\* lines 83-88, condition false
ScanIgnore ==
    /\ pc = "scan"
    /\ idx <= Len(args)
    /\ Branch(onlyFlags, args[idx]) = "ignore"
    /\ result' = LoopBody(Here, args[idx]).result
    /\ onlyFlags' = LoopBody(Here, args[idx]).onlyFlags
    /\ idx' = idx + 1
    /\ UNCHANGED <<argv0, context, args, status, pc, added, sent>>
    /\ UNCHANGED logVars
    /\ UNCHANGED quiet

\* the range is exhausted, line 90
ScanEnd ==
    /\ pc = "scan"
    /\ idx > Len(args)
    /\ pc' = "classified"
    /\ UNCHANGED <<argv0, context, args, status, idx, result, onlyFlags, added, sent>>
    /\ UNCHANGED logVars
    /\ UNCHANGED quiet

\* a slip: context and status exchanged
Record_Swapped(command, ctx, st) ==
    [Command |-> command, Context |-> st, Source |-> CLISource, Status |-> ctx]

\* the record of lines 34-39
Record(command, ctx, st) ==
    [Command |-> command, Context |-> ctx, Source |-> CLISource, Status |-> st]

\* lines 32-40, command non-empty: c.Send receives the record
TrackSend ==
    /\ pc = "classified"
    /\ result # <<>>
    /\ sent' = Append(sent, Record(result, context, status))
    /\ pc' = "returned"
    /\ UNCHANGED <<argv0, context, args, status, idx, result, onlyFlags, added>>
    /\ UNCHANGED logVars
    /\ UNCHANGED quiet

\* lines 32-41, command empty
TrackSkip ==
    /\ pc = "classified"
    /\ result = <<>>
    /\ pc' = "returned"
    /\ UNCHANGED <<argv0, context, args, status, idx, result, onlyFlags, added, sent>>
    /\ UNCHANGED logVars
    /\ UNCHANGED quiet

Next ==
    \/ TrackBackend
    \/ TrackClassify
    \/ ScanHelp
    \/ ScanTerminator
    \/ ScanAppend
    \/ ScanIgnore
    \/ ScanEnd
    \/ TrackSend
    \/ TrackSkip

Spec == Init /\ [][Next]_vars

-----------------------------------------------------------------------------
(* HasQuietFlag, step by step.                                             *)

\* a slip: the short form forgotten
QuietCase_LongOnly(a) == a = quietLong

\* line 64: the case of the switch
QuietCase(a) == a = quietLong \/ a = quietShort

RECURSIVE QuietFrom(_, _)
QuietFrom(a, i) ==
    IF i > Len(a) THEN FALSE
    ELSE IF QuietCase(a[i]) THEN TRUE
    ELSE QuietFrom(a, i + 1)

\* HasQuietFlag as a function of its argument
HasQuietFlag(a) == QuietFrom(a, 1)

InitQuiet ==
    /\ argv0 = docker
    /\ context = "default"
    /\ args \in QuietArgVectors
    /\ status = "success"
    /\ pc = "HasQuietFlag"
    /\ idx = 1
    /\ result = <<>>
    /\ onlyFlags = FALSE
    /\ added = <<>>
    /\ sent = <<>>
    /\ NoLogs
    /\ quiet = "none"

\* lines 62-65: the token is a quiet flag
QuietFound ==
    /\ pc = "HasQuietFlag"
    /\ idx <= Len(args)
    /\ QuietCase(args[idx])
    /\ quiet' = TRUE
    /\ pc' = "quietReturned"
    /\ UNCHANGED <<argv0, context, args, status, idx, result, onlyFlags, added, sent>>
    /\ UNCHANGED logVars

\* lines 62-67: the token is something else
QuietSkip ==
    /\ pc = "HasQuietFlag"
    /\ idx <= Len(args)
    /\ ~QuietCase(args[idx])
    /\ idx' = idx + 1
    /\ UNCHANGED <<argv0, context, args, status, pc, result, onlyFlags, added, sent>>
    /\ UNCHANGED logVars
    /\ UNCHANGED quiet

\* line 68: the range is exhausted
QuietNone ==
    /\ pc = "HasQuietFlag"
    /\ idx > Len(args)
    /\ quiet' = FALSE
    /\ pc' = "quietReturned"
    /\ UNCHANGED <<argv0, context, args, status, idx, result, onlyFlags, added, sent>>
    /\ UNCHANGED logVars

NextQuiet ==
    \/ QuietFound
    \/ QuietSkip
    \/ QuietNone

SpecQuiet == InitQuiet /\ [][NextQuiet]_vars

-----------------------------------------------------------------------------
(* utils.FilteredLogConsumer and the backend's GetLogs.                    *)

\* the allowed-services set the filter builds from the service list
Allowed(svcs) == {svcs[i] : i \in 1..Len(svcs)}

\* the filtering consumer's emit: what the base consumer has received after
\* the entry was offered
FilteredLog(allowed, received, entry) ==
    IF allowed = {} \/ entry.service \in allowed
    THEN Append(received, entry)
    ELSE received

\* the base consumer's emit
BaseLog(received, entry) == Append(received, entry)

-----------------------------------------------------------------------------
(* ecsAPIService.Logs, step by step.                                       *)

\* a slip: the comparison off by one
ShouldWrap_OffByOne(svcs) == Len(svcs) > 1

\* a slip: the consumer wrapped whatever was requested
ShouldWrap_Always(svcs) == Len(svcs) >= 0

\* line 170
ShouldWrap(svcs) == Len(svcs) > 0

\* a slip: the error dropped
LogsResult_Swallowed(err) == "nil"

\* lines 173-174: Logs returns what GetLogs returned
LogsResult(err) == err

NoTrack ==
    /\ argv0 = docker
    /\ context = "default"
    /\ args = <<>>
    /\ status = "success"
    /\ pc = "off"
    /\ idx = 1
    /\ result = <<>>
    /\ onlyFlags = FALSE
    /\ added = <<>>
    /\ sent = <<>>

InitLogs ==
    /\ services \in ServiceLists
    /\ follow \in BOOLEAN
    /\ stream \in Streams
    /\ emitted = 0
    /\ wrapped = FALSE
    /\ delivered = <<>>
    /\ cancelled = FALSE
    /\ backendErr = "none"
    /\ ret = "none"
    /\ lpc = "Logs"
    /\ NoTrack
    /\ quiet = "none"

\* lines 170-173: the consumer is wrapped or not, and GetLogs is called
LogsCall ==
    /\ lpc = "Logs"
    /\ wrapped' = ShouldWrap(services)
    /\ lpc' = "GetLogs"
    /\ UNCHANGED <<services, follow, stream, emitted, delivered, cancelled, backendErr, ret>>
    /\ UNCHANGED trackVars
    /\ UNCHANGED quiet

\* the backend emits its next entry through consumer.Log; how soon a backend
\* whose context is cancelled stops doing so is the backend's affair, so it
\* may still emit until it returns
BackendEmit ==
    /\ lpc = "GetLogs"
    /\ emitted < Len(stream)
    /\ emitted' = emitted + 1
    /\ delivered' = IF wrapped
                    THEN FilteredLog(Allowed(services), delivered, stream[emitted + 1])
                    ELSE BaseLog(delivered, stream[emitted + 1])
    /\ UNCHANGED <<services, follow, stream, wrapped, cancelled, backendErr, ret, lpc>>
    /\ UNCHANGED trackVars
    /\ UNCHANGED quiet

\* the caller cancels the context
Cancel ==
    /\ lpc = "GetLogs"
    /\ ~cancelled
    /\ cancelled' = TRUE
    /\ UNCHANGED <<services, follow, stream, emitted, wrapped, delivered, backendErr, ret, lpc>>
    /\ UNCHANGED trackVars
    /\ UNCHANGED quiet

\* GetLogs ends normally: nothing is left to emit and it does not follow,
\* or the context was cancelled; nothing obliges it to
BackendFinish ==
    /\ lpc = "GetLogs"
    /\ cancelled \/ (~follow /\ emitted = Len(stream))
    /\ backendErr' = "nil"
    /\ lpc' = "GetLogsReturned"
    /\ UNCHANGED <<services, follow, stream, emitted, wrapped, delivered, cancelled, ret>>
    /\ UNCHANGED trackVars
    /\ UNCHANGED quiet

\* GetLogs fails
BackendFail ==
    /\ lpc = "GetLogs"
    /\ \E e \in Errors : backendErr' = e
    /\ lpc' = "GetLogsReturned"
    /\ UNCHANGED <<services, follow, stream, emitted, wrapped, delivered, cancelled, ret>>
    /\ UNCHANGED trackVars
    /\ UNCHANGED quiet

\* line 174
LogsReturn ==
    /\ lpc = "GetLogsReturned"
    /\ ret' = LogsResult(backendErr)
    /\ lpc' = "returned"
    /\ UNCHANGED <<services, follow, stream, emitted, wrapped, delivered, cancelled, backendErr>>
    /\ UNCHANGED trackVars
    /\ UNCHANGED quiet

NextLogs ==
    \/ LogsCall
    \/ BackendEmit
    \/ Cancel
    \/ BackendFinish
    \/ BackendFail
    \/ LogsReturn

SpecLogs == InitLogs /\ [][NextLogs]_vars

-----------------------------------------------------------------------------
(* Vocabulary of the properties.                                           *)

RECURSIVE FieldsFrom(_, _, _)
FieldsFrom(s, cur, acc) ==
    IF Len(s) = 0
    THEN IF cur = <<>> THEN acc ELSE Append(acc, cur)
    ELSE LET d == DecodeRune(s)
         IN  IF IsSpace(d.rune)
             THEN FieldsFrom(SubSeq(s, d.size + 1, Len(s)), <<>>,
                             IF cur = <<>> THEN acc ELSE Append(acc, cur))
             ELSE FieldsFrom(SubSeq(s, d.size + 1, Len(s)), cur \o SubSeq(s, 1, d.size), acc)

\* the words of a string: its maximal runs of runes that are not white space
Words(s) == FieldsFrom(s, <<>>, <<>>)

InList(list, word) == \E i \in 1..Len(list) : list[i] = word

\* the token passes one of the tests of the loop body
Recognised(t) ==
    \/ t = helpFlag
    \/ InList(commandFlags, t)
    \/ InList(commands, t)
    \/ InList(managementCommands, t)

\* a command that is not a management command
Terminal(t) == InList(commands, t) /\ ~InList(managementCommands, t)

\* the position of the first "--" of a, Len(a) + 1 when there is none
FirstTerminator(a) ==
    IF \E i \in 1..Len(a) : a[i] = terminator
    THEN CHOOSE i \in 1..Len(a) : a[i] = terminator /\ \A j \in 1..(i - 1) : a[j] # terminator
    ELSE Len(a) + 1

EndsWithBackend(executable) == HasSuffix(executable, backendSuffix)

Classified == pc = "classified"

-----------------------------------------------------------------------------
(* Properties of GetCommand and Track.                                     *)

\* C1: every word of the result is a token of args that is "--help", a
\* command flag, a command or a management command; a token of args that is
\* none of these is never a word of the result.
C1_OnlyRecognisedWords ==
    LET w == Words(result)
    IN  /\ \A k \in 1..Len(w) :
              /\ Recognised(w[k])
              /\ \E i \in 1..Len(args) : args[i] = w[k]
        /\ \A i \in 1..Len(args) :
              ~Recognised(args[i]) => \A k \in 1..Len(w) : w[k] # args[i]

C1_Witness ==
    /\ Classified
    /\ result # <<>>
    /\ \E i \in 1..Len(args) : args[i] = myimage /\ i < idx

\* C2: once a terminal command has been appended, every token written into
\* the result later in the same scan is a command flag or "--help".
C2_FrozenAfterTerminal ==
    \A i, j \in 1..Len(added) :
        (i < j /\ added[i].how = "append" /\ Terminal(added[i].tok))
            => (added[j].tok = helpFlag \/ InList(commandFlags, added[j].tok))

C2_Witness ==
    /\ Classified
    /\ \E i, j \in 1..Len(added) :
          /\ i < j
          /\ Terminal(added[i].tok)
          /\ InList(commandFlags, added[j].tok)
          /\ \E p \in (added[i].pos + 1)..(added[j].pos - 1) :
                InList(commands, args[p]) \/ InList(managementCommands, args[p])

\* C3 as stated: whenever args holds "--help" at any position, the first
\* word of the result is "--help".
C3_HelpAnywhereLeads ==
    (Classified /\ \E i \in 1..Len(args) : args[i] = helpFlag)
        => (Len(Words(result)) > 0 /\ Words(result)[1] = helpFlag)

\* C3 amended: whenever args holds "--help" at a position before its first
\* "--" (anywhere when it has no "--"), the first word of the result is
\* "--help".
C3_HelpBeforeTerminatorLeads ==
    (Classified /\ \E i \in 1..(FirstTerminator(args) - 1) : args[i] = helpFlag)
        => (Len(Words(result)) > 0 /\ Words(result)[1] = helpFlag)

C3_Witness ==
    /\ Classified
    /\ Len(args) >= 2
    /\ Terminal(args[1])
    /\ args[2] = helpFlag
    /\ Len(Words(result)) >= 2

\* C4: the scan never reads a token at or after the first "--": the result
\* is the classification of the prefix before it, and every argument vector
\* that agrees with args up to and including that "--" classifies to the
\* same string.
C4_NothingAfterTerminator ==
    LET k == FirstTerminator(args)
    IN  k <= Len(args) =>
          /\ pc = "scan" => idx <= k
          /\ Classified =>
                /\ idx = k
                /\ result = GetCommand(SubSeq(args, 1, k - 1))
                /\ \A suffix \in SeqsUpTo(Tokens, MaxArgs - k) :
                      GetCommand(SubSeq(args, 1, k) \o suffix) = result

C4_Witness ==
    /\ Classified
    /\ FirstTerminator(args) < Len(args)
    /\ result # <<>>
    /\ Recognised(args[Len(args)])

\* C5: a process whose os.Args[0] ends with "-backend" hands no record to
\* the metrics client, whatever the context, the args and the status.
C5_BackendSendsNothing ==
    EndsWithBackend(argv0) => (sent = <<>> /\ pc \in {"Track", "returned"})

C5_Witness ==
    /\ pc = "returned"
    /\ EndsWithBackend(argv0)
    /\ GetCommand(args) # <<>>

\* C6: a call of Track hands exactly one record to the metrics client when
\* the process is not a backend and the classification of args is not
\* empty, and none otherwise; the record holds that classification, the
\* context, the status and the source CLISource.
C6_ExactlyOneRecord ==
    /\ pc # "returned" => sent = <<>>
    /\ pc = "returned" =>
          sent = IF ~EndsWithBackend(argv0) /\ GetCommand(args) # <<>>
                 THEN << [Command |-> GetCommand(args), Context |-> context,
                          Source |-> CLISource, Status |-> status] >>
                 ELSE <<>>

C6_Witness ==
    /\ pc = "returned"
    /\ Len(sent) = 1
    /\ sent[1].Context = "aci"
    /\ sent[1].Status = "failure"
    /\ Len(Words(sent[1].Command)) >= 2

\* C10: an argument vector without "--help", command flag, command or
\* management command classifies to the empty string; so does the empty
\* argument vector.
C10_UnrecognisedGivesEmpty ==
    (Classified /\ \A i \in 1..Len(args) : ~Recognised(args[i])) => result = <<>>

C10_Witness ==
    /\ Classified
    /\ Len(args) >= 2
    /\ \A i \in 1..Len(args) : ~Recognised(args[i])
    /\ \E i \in 1..Len(args) : args[i] = myimage /\ i < idx

RECURSIVE IsSubsequence(_, _)
\* whether w can be read in a, left to right, at increasing positions
IsSubsequence(w, a) ==
    IF w = <<>> THEN TRUE
    ELSE IF a = <<>> THEN FALSE
    ELSE IF Head(w) = Head(a) THEN IsSubsequence(Tail(w), Tail(a))
    ELSE IsSubsequence(w, Tail(a))

RECURSIVE Without(_, _)
\* the sequence without its elements equal to x
Without(seq, x) ==
    IF seq = <<>> THEN <<>>
    ELSE IF Head(seq) = x THEN Without(Tail(seq), x)
    ELSE <<Head(seq)>> \o Without(Tail(seq), x)

\* how many elements of the sequence equal x
Count(seq, x) == Cardinality({i \in 1..Len(seq) : seq[i] = x})

\* C13 as stated: the words of the result, read left to right, are tokens of
\* args at distinct positions in the same relative order as in args.
C13_WordsAreSubsequence ==
    Classified => IsSubsequence(Words(result), args)

\* C13 amended: the words of the result are tokens of args taken at distinct
\* positions, and the words other than "--help" appear in the same relative
\* order as in args.
C13_NonHelpWordsAreSubsequence ==
    Classified =>
        /\ IsSubsequence(Without(Words(result), helpFlag), Without(args, helpFlag))
        /\ Count(Words(result), helpFlag) <= Count(args, helpFlag)

C13_Witness ==
    /\ Classified
    /\ Len(args) = 3
    /\ InList(managementCommands, args[1])
    /\ args[2] = helpFlag
    /\ Terminal(args[3])
    /\ Words(result) = <<args[2], args[1], args[3]>>

\* a command or a management command
CommandToken(t) == InList(commands, t) \/ InList(managementCommands, t)

\* every command among the tokens already read is a management command
OnlyManagementSoFar ==
    \A i \in 1..(idx - 1) : CommandToken(args[i]) => InList(managementCommands, args[i])

\* C14: while every command read so far in a scan is a management command,
\* the next token that is a command, terminal or management, and is read
\* before any "--" is appended to the result.
C14_ManagementDoesNotFreeze ==
    [][(/\ pc = "scan"
        /\ idx <= Len(args)
        /\ CommandToken(args[idx])
        /\ OnlyManagementSoFar)
          => (/\ Words(result') = Append(Words(result), args[idx])
              /\ idx' = idx + 1)]_vars

C14_Witness ==
    /\ Classified
    /\ Len(args) = 3
    /\ InList(managementCommands, args[1])
    /\ ~InList(commands, args[1])
    /\ InList(managementCommands, args[2])
    /\ Terminal(args[3])
    /\ Words(result) = args

\* some terminal command among the tokens already read was appended
TerminalAppended ==
    \E k \in 1..Len(added) : added[k].how = "append" /\ Terminal(added[k].tok)

\* C15: during a scan onlyFlags is true exactly when a terminal command
\* was appended among the tokens already read; it is false when the scan
\* starts and, once true, stays true to the end of the scan.
C15_LatchMeansTerminalAppended ==
    /\ [](pc \in {"scan", "classified"} => (onlyFlags <=> TerminalAppended))
    /\ []((pc = "scan" /\ idx = 1) => ~onlyFlags)
    /\ [][(pc = "scan" /\ onlyFlags) => onlyFlags']_vars

C15_Witness ==
    /\ Classified
    /\ onlyFlags
    /\ Len(added) = 3
    /\ ~Terminal(added[1].tok)
    /\ Terminal(added[2].tok)
    /\ added[3].how = "append"

\* the token has a part in the scan: it is recognised or is the terminator
Significant(t) == Recognised(t) \/ t = terminator

RECURSIVE Strip(_)
\* the argument vector without its tokens that have no part in the scan
Strip(a) ==
    IF a = <<>> THEN <<>>
    ELSE IF Significant(Head(a)) THEN <<Head(a)>> \o Strip(Tail(a))
    ELSE Strip(Tail(a))

\* a with the token t put in front of position p
Inserted(a, p, t) == SubSeq(a, 1, p - 1) \o <<t>> \o SubSeq(a, p, Len(a))

\* C16: tokens that are neither recognised nor "--" have no influence: the
\* result is that of args without them, and so is the result of args with
\* one more of them at any position; two argument vectors that are equal
\* without such tokens therefore classify to the same string.
C16_UnrecognisedHaveNoInfluence ==
    Classified =>
        /\ result = GetCommand(Strip(args))
        /\ \A p \in 1..(Len(args) + 1) : \A t \in {u \in Tokens : ~Significant(u)} :
              /\ Strip(Inserted(args, p, t)) = Strip(args)
              /\ GetCommand(Inserted(args, p, t)) = result

C16_Witness ==
    /\ Classified
    /\ Len(args) = 3
    /\ ~Significant(args[1])
    /\ InList(managementCommands, args[2])
    /\ Terminal(args[3])
    /\ Words(result) = <<args[2], args[3]>>

\* C17: the result holds as many "--help" words as args holds "--help"
\* tokens before its first "--" (all of them when it has none), and they
\* precede every other word; a "--help" read after a terminal command has
\* set onlyFlags is prepended like any other.
C17_EveryHelpCountedAndLeading ==
    Classified =>
        LET w == Words(result)
            n == Count(SubSeq(args, 1, FirstTerminator(args) - 1), helpFlag)
        IN  /\ Count(w, helpFlag) = n
            /\ \A k \in 1..Len(w) : (w[k] = helpFlag) <=> (k <= n)

C17_Witness ==
    /\ Classified
    /\ onlyFlags
    /\ Len(args) = 3
    /\ Terminal(args[1])
    /\ args[2] = helpFlag
    /\ args[3] = helpFlag
    /\ Words(result) = <<helpFlag, helpFlag, args[1]>>

RECURSIVE SplitFrom(_, _, _, _)
SplitFrom(s, sep, cur, acc) ==
    IF Len(s) = 0 THEN Append(acc, cur)
    ELSE IF SubSeq(s, 1, 1) = sep
         THEN SplitFrom(SubSeq(s, 2, Len(s)), sep, <<>>, Append(acc, cur))
         ELSE SplitFrom(SubSeq(s, 2, Len(s)), sep, cur \o SubSeq(s, 1, 1), acc)

\* strings.Split on a separator of one character
Split(s, sep) == SplitFrom(s, sep, <<>>, <<>>)

\* C18: classification is idempotent: the result split on spaces and
\* classified again gives the result unchanged.
C18_Idempotent ==
    Classified => GetCommand(Split(result, space)) = result

C18_Witness ==
    /\ Classified
    /\ Len(args) = 3
    /\ Len(Words(result)) = 3
    /\ Split(result, space) # args
    /\ Split(result, space)[1] = helpFlag
    /\ Terminal(Split(result, space)[3])

-----------------------------------------------------------------------------
(* Properties of Logs.                                                     *)

RECURSIVE Restrict(_, _)
\* the entries of a sequence whose service is in the set, in their order
Restrict(seq, allowed) ==
    IF seq = <<>> THEN <<>>
    ELSE IF Head(seq).service \in allowed
         THEN <<Head(seq)>> \o Restrict(Tail(seq), allowed)
         ELSE Restrict(Tail(seq), allowed)

\* the entries the backend has emitted so far
Emitted == SubSeq(stream, 1, emitted)

Requested == {services[i] : i \in 1..Len(services)}

\* C7: with a non-empty allowed-services set, the base consumer has received
\* exactly the emitted entries whose service is allowed, each once, unchanged
\* and in the order of emission, and no entry of another service.
C7_FilteredInOrder ==
    (lpc # "Logs" /\ Requested # {}) => delivered = Restrict(Emitted, Requested)

C7_Witness ==
    /\ lpc = "returned"
    /\ Requested = {"web"}
    /\ emitted = 3
    /\ stream[1].service = "web"
    /\ stream[2].service = "db"
    /\ stream[3].service = "web"
    /\ Len(delivered) = 2

\* C8: the consumer is wrapped if and only if the requested service list is
\* not empty; with an empty list the base consumer receives every emitted
\* entry, in the order of emission.
C8_EmptyMeansUnfiltered ==
    lpc # "Logs" =>
        /\ wrapped <=> (services # <<>>)
        /\ services = <<>> => delivered = Emitted

C8_Witness ==
    /\ lpc = "returned"
    /\ services = <<>>
    /\ ~wrapped
    /\ emitted = 3
    /\ Len(delivered) = 3
    /\ stream[1].service # stream[2].service

\* C9: Logs returns the value GetLogs returned, nil or the same error,
\* whether or not the filter was installed and whatever it dropped.
C9_ErrorUnchanged ==
    lpc = "returned" => (ret = backendErr /\ backendErr \in Errors \cup {"nil"})

C9_Witness ==
    /\ lpc = "returned"
    /\ ret \in Errors
    /\ wrapped
    /\ emitted >= 2
    /\ Len(delivered) < emitted

-----------------------------------------------------------------------------
(* Properties of HasQuietFlag.                                             *)

\* C11: HasQuietFlag returns true if and only if some token of args, at any
\* position, is exactly "--quiet" or exactly "-q"; the classification of
\* args as a command plays no part.
C11_QuietIffExactToken ==
    pc = "quietReturned" =>
        /\ quiet \in BOOLEAN
        /\ quiet <=> \E i \in 1..Len(args) : args[i] \in {quietLong, quietShort}

C11_Witness ==
    /\ pc = "quietReturned"
    /\ quiet = TRUE
    /\ Len(args) = 3
    /\ args[1] = terminator
    /\ args[2] = Lit("--quiet=true")
    /\ args[3] = quietShort
    /\ GetCommand(args) = <<>>

====
